---------------------------- MODULE Spec2Model ----------------------------
(***************************************************************************)
(* A model of the Capital Flow Advisory page script.  The repository holds *)
(* two copies of the script, src/js/script.js and src/unnamed/part_000;    *)
(* the variable `build` says which copy the page loaded.  The DOM sinks    *)
(* are modelled as lists of child nodes, JavaScript values as tagged       *)
(* records, and strings that the code parses or formats as sequences of    *)
(* one-character strings.                                                  *)
(***************************************************************************)
EXTENDS Integers, Sequences, FiniteSets, TLC

VARIABLES
    build,       \* which copy of the script runs
    dom,         \* which sink elements the document holds
    sinks,       \* the child nodes of each sink element
    pc,          \* position of the page's fetchMarketData call
    moversData,  \* the decoded response body, once json() has resolved
    requests,    \* HTTP requests issued so far
    escaped,     \* an exception left fetchMarketData
    lastError,   \* message of the error the catch block displayed
    charts,      \* Chart objects constructed on the canvas
    call,        \* render harness: the render function and its argument
    calls,       \* render harness: calls made so far
    first,       \* render harness: the sinks as the first call left them
    threw,       \* render harness: the last call threw
    raw,         \* map harness: the raw entry handed to the map callback
    norm,        \* map harness: what the callback did with it
    menuDom,     \* which elements of the mobile menu the document holds
    menu,        \* aria-expanded of the button, display of panel and icons
    menuLog,     \* the menu as the document delivered it and after each click
    cards        \* the service cards: whether each has the class "visible"

vars == <<build, dom, sinks, pc, moversData, requests, escaped, lastError,
          charts, call, calls, first, threw, raw, norm, menuDom, menu,
          menuLog, cards>>

-----------------------------------------------------------------------------
(* Bounds of the model.                                                    *)

\* Most raw entries in top_gainers and top_losers together.
MaxEntries == 2
\* Most items in an array handed directly to a render function.
MaxItems == 2
\* Largest bucket count handed directly to renderMarketBreadth.
MaxCount == 3
\* Most consecutive calls of one render function with one input.
MaxCalls == 2
\* Most clicks on the mobile menu button during one page load.
MaxClicks == 3
\* Most service cards in the document.
MaxCards == 1

-----------------------------------------------------------------------------
(* Strings the code parses or formats: sequences of characters.            *)

Digits == {"0", "1", "2", "3", "4", "5", "6", "7", "8", "9"}

Digit(c) ==
    CASE c = "0" -> 0 [] c = "1" -> 1 [] c = "2" -> 2 [] c = "3" -> 3
      [] c = "4" -> 4 [] c = "5" -> 5 [] c = "6" -> 6 [] c = "7" -> 7
      [] c = "8" -> 8 [] c = "9" -> 9

DigitChar(n) ==
    CASE n = 0 -> "0" [] n = 1 -> "1" [] n = 2 -> "2" [] n = 3 -> "3"
      [] n = 4 -> "4" [] n = 5 -> "5" [] n = 6 -> "6" [] n = 7 -> "7"
      [] n = 8 -> "8" [] n = 9 -> "9"

RECURSIVE Pow10(_)
Pow10(n) == IF n = 0 THEN 1 ELSE 10 * Pow10(n - 1)

\* Number of digits of s starting at position i.
RECURSIVE DigitRun(_, _)
DigitRun(s, i) ==
    IF i <= Len(s) /\ s[i] \in Digits THEN 1 + DigitRun(s, i + 1) ELSE 0

RECURSIVE DigitsValue(_)
DigitsValue(ds) ==
    IF ds = <<>> THEN 0
    ELSE 10 * DigitsValue(SubSeq(ds, 1, Len(ds) - 1)) + Digit(ds[Len(ds)])

RECURSIVE IntToChars(_)
IntToChars(n) ==
    IF n < 10 THEN <<DigitChar(n)>>
    ELSE IntToChars(n \div 10) \o <<DigitChar(n % 10)>>

\* Leading white space, which parseFloat skips.
RECURSIVE TrimStart(_)
TrimStart(s) ==
    IF s # <<>> /\ Head(s) = " " THEN TrimStart(Tail(s)) ELSE s

NaN == [nan |-> TRUE, neg |-> FALSE, m |-> 0, s |-> 0]

\* parseFloat on a string: the longest prefix that is a decimal literal
\* (sign, digits, a point, digits), read as the number m / 10^s; NaN when
\* no prefix is one.  The input strings of the model hold no exponent and
\* no "Infinity".
parseFloat(str) ==
    LET t    == TrimStart(str)
        sgn  == t # <<>> /\ Head(t) \in {"+", "-"}
        u    == IF sgn THEN Tail(t) ELSE t
        ni   == DigitRun(u, 1)
        dot  == ni < Len(u) /\ u[ni + 1] = "."
        nf   == IF dot THEN DigitRun(u, ni + 2) ELSE 0
        ds   == SubSeq(u, 1, ni) \o SubSeq(u, ni + 2, ni + 1 + nf)
    IN  IF ni + nf = 0 THEN NaN
        ELSE [nan |-> FALSE, neg |-> sgn /\ Head(t) = "-",
              m |-> DigitsValue(ds), s |-> nf]

\* The decimals m / 10^s of the model's inputs that lie exactly half way
\* between two hundredths and whose IEEE double lies below the decimal:
\* toFixed rounds the double, so these round down (1.005 -> "1.00").
DoubleBelow(m, s) == <<m, s>> \in {<<1005, 3>>}

\* Number.prototype.toFixed(2): the nearest hundredth of the double, the
\* larger one on an exact tie, printed with two fractional digits; "NaN"
\* for NaN.  The sign is kept for every negative number, -0.001 included.
toFixed2(x) ==
    IF x.nan THEN <<"N", "a", "N">>
    ELSE LET P     == Pow10(IF x.s > 2 THEN x.s - 2 ELSE 0)
             q     == x.m \div P
             r     == x.m % P
             cents == IF x.s <= 2 THEN x.m * Pow10(2 - x.s)
                      ELSE IF 2 * r > P \/ (2 * r = P /\ ~DoubleBelow(x.m, x.s))
                           THEN q + 1 ELSE q
         IN  (IF x.neg /\ x.m > 0 THEN <<"-">> ELSE <<>>)
             \o IntToChars(cents \div 100)
             \o <<".", DigitChar((cents % 100) \div 10), DigitChar(cents % 10)>>

\* String.prototype.replace('%', ''): the first "%" removed.
RECURSIVE replacePercent(_)
replacePercent(s) ==
    IF s = <<>> THEN <<>>
    ELSE IF Head(s) = "%" THEN Tail(s)
    ELSE <<Head(s)>> \o replacePercent(Tail(s))

-----------------------------------------------------------------------------
(* The DOM sinks.  A sink is the list of child nodes of its element; an    *)
(* element the document does not hold has no list to write.                *)

SinkNames == {"gainers", "losers", "breadth", "news", "blogs"}

\* A child node: its kind, its text, and for a mover row the price, the
\* change and the class of the change cell; for a breadth bucket the
\* percentage; for a news or blog item the link target and the author.
Node(kind, text, price, change, cls, pct, nan) ==
    [kind |-> kind, text |-> text, price |-> price, change |-> change,
     cls |-> cls, pct |-> pct, nan |-> nan, href |-> "", author |-> ""]

\* What the page's HTML holds in a sink before the script writes it.
StaticNode == Node("static", "", <<>>, <<>>, "", 0, FALSE)

\* <tr><td colspan="3">text</td></tr>, <p>text</p>, <li>text</li>.
TextNode(text) == Node("text", text, <<>>, <<>>, "", 0, FALSE)

Unavailable == TextNode("Data unavailable.")

\* One bucket of the breadth widget: its label and the rounded percentage,
\* NaN when the total is zero.
PctNode(label, cls, v) == Node("pct", label, <<>>, <<>>, cls, v.pct, v.nan)

\* element.innerHTML = markup, when the element exists.
setInnerHTML(s, d, name, nodes) ==
    IF d[name] THEN [s EXCEPT ![name] = nodes] ELSE s

appendChildFirst(children, node) == <<node>> \o children

\* parent.appendChild(node): the node becomes the last child.
appendChild(children, node) == Append(children, node)

-----------------------------------------------------------------------------
(* renderTopMovers                                                         *)

\* An array-valued property: an array of items, absent, or something else.
ArrayField(items) == [t |-> "array", items |-> items]
AbsentField == [t |-> "absent", items |-> <<>>]
OtherField == [t |-> "other", items |-> <<>>]

isArray(f) == f.t = "array"

\* A normalised mover, or a null or undefined array element.
MoverRecord(symbol, price, change) ==
    [t |-> "obj", symbol |-> symbol, price |-> price, change |-> change]
NullItem == [t |-> "null", symbol |-> "", price |-> <<>>, change |-> <<>>]
UndefItem == [t |-> "undef", symbol |-> "", price |-> <<>>, change |-> <<>>]

\* The argument of renderTopMovers: an object with its gainers and losers
\* properties, or null, undefined, a falsy or a truthy primitive.
MoversObject(g, l) == [t |-> "obj", gainers |-> g, losers |-> l]
MoversOther(t) == [t |-> t, gainers |-> AbsentField, losers |-> AbsentField]

truthy(v) == v.t \notin {"null", "undef", "falsy"}

\* The shape check of renderTopMovers, negated.
shapeOk(data) ==
    truthy(data) /\ isArray(data.gainers) /\ isArray(data.losers)

writeUnavailableGainersOnly(s, d) == setInnerHTML(s, d, "gainers", <<Unavailable>>)

\* The two placeholder writes of the invalid-data branch.
writeUnavailable(s, d) ==
    setInnerHTML(setInnerHTML(s, d, "gainers", <<Unavailable>>),
                 d, "losers", <<Unavailable>>)

createTableRow(item, isGainer) ==
    Node("row", item.symbol, item.price, item.change,
         IF isGainer THEN "price-up" ELSE "price-down", 0, FALSE)

clearTablesNot(s, d) == s

\* The two innerHTML = '' writes before the rows are appended.
clearTables(s, d) ==
    setInnerHTML(setInnerHTML(s, d, "gainers", <<>>), d, "losers", <<>>)

\* items.forEach(item => body?.appendChild(createTableRow(item, isGainer))):
\* without the element nothing is evaluated; with it, reading a property of
\* a null or undefined item throws and ends the loop.
RECURSIVE appendRows(_, _, _, _)
appendRows(children, present, items, isGainer) ==
    IF items = <<>> \/ ~present THEN [children |-> children, threw |-> FALSE]
    ELSE IF Head(items).t \in {"null", "undef"}
         THEN [children |-> children, threw |-> TRUE]
    ELSE appendRows(appendChild(children, createTableRow(Head(items), isGainer)),
                    present, Tail(items), isGainer)

\* The message of the TypeError a property read of null or undefined throws
\* (the wording is the engine's).
NullReadMessage == "Cannot read properties of null"

Returned(s) == [sinks |-> s, threw |-> FALSE, message |-> ""]
Thrown(s, message) == [sinks |-> s, threw |-> TRUE, message |-> message]

renderTopMovers(s, d, data) ==
    IF ~shapeOk(data) THEN Returned(writeUnavailable(s, d))
    ELSE LET c == clearTables(s, d)
             g == appendRows(c.gainers, d.gainers, data.gainers.items, TRUE)
             sg == [c EXCEPT !.gainers = g.children]
             l == appendRows(c.losers, d.losers, data.losers.items, FALSE)
         IN  IF g.threw THEN Thrown(sg, NullReadMessage)
             ELSE IF l.threw
                  THEN Thrown([sg EXCEPT !.losers = l.children], NullReadMessage)
             ELSE Returned([sg EXCEPT !.losers = l.children])

-----------------------------------------------------------------------------
(* renderMarketBreadth                                                     *)

BreadthCounts(a, dcl, u) ==
    [t |-> "obj", advancing |-> a, declining |-> dcl, unchanged |-> u]
NullCounts == [t |-> "null", advancing |-> 0, declining |-> 0, unchanged |-> 0]
UndefCounts == [t |-> "undef", advancing |-> 0, declining |-> 0, unchanged |-> 0]

MathFloor(num, den) == num \div den

\* Math.round(num / den) for num >= 0, den > 0: the nearest integer, the
\* larger one half way.
MathRound(num, den) == (2 * num + den) \div (2 * den)

\* Math.round((count / total) * 100); 0 / 0 is NaN and stays NaN.  Within
\* the model's counts the quotient is half way between two integers only
\* for a total of 8, where the double division is exact.
percentage(count, total) ==
    IF total = 0 THEN [pct |-> 0, nan |-> TRUE]
    ELSE [pct |-> MathRound(count * 100, total), nan |-> FALSE]

renderMarketBreadth(s, d, breadthData) ==
    IF ~d.breadth \/ ~truthy(breadthData)
    THEN setInnerHTML(s, d, "breadth", <<Unavailable>>)
    ELSE LET total == breadthData.advancing + breadthData.declining
                      + breadthData.unchanged
         IN  setInnerHTML(s, d, "breadth",
                 << PctNode("Advancing", "indicator-up",
                            percentage(breadthData.advancing, total)),
                    PctNode("Declining", "indicator-down",
                            percentage(breadthData.declining, total)),
                    PctNode("Unchanged", "text-gray-600",
                            percentage(breadthData.unchanged, total)) >>)

-----------------------------------------------------------------------------
(* renderInsights                                                          *)

InsightItem(title, author, url) ==
    [t |-> "obj", title |-> title, author |-> author, url |-> url]
NullInsight == [t |-> "null", title |-> "", author |-> "", url |-> ""]

createNewsItem(item) ==
    [Node("news", item.title, <<>>, <<>>, "", 0, FALSE) EXCEPT !.href = item.url]

createBlogItem(item) ==
    [Node("blog", item.title, <<>>, <<>>, "border-b last:border-b-0 pb-2 mb-2",
          0, FALSE) EXCEPT !.href = item.url, !.author = item.author]

\* items.forEach(item => list.appendChild(create(item))).
RECURSIVE appendInsights(_, _, _)
appendInsights(children, items, isNews) ==
    IF items = <<>> THEN [children |-> children, threw |-> FALSE]
    ELSE IF Head(items).t \in {"null", "undef"}
         THEN [children |-> children, threw |-> TRUE]
    ELSE appendInsights(
             appendChild(children, IF isNews THEN createNewsItem(Head(items))
                                   ELSE createBlogItem(Head(items))),
             Tail(items), isNews)

renderInsights(s, d, newsData, blogsData) ==
    IF ~d.news \/ ~d.blogs \/ ~isArray(newsData) \/ ~isArray(blogsData)
    THEN Returned(setInnerHTML(setInnerHTML(s, d, "news", <<Unavailable>>),
                               d, "blogs", <<Unavailable>>))
    ELSE LET c == [s EXCEPT !.news = <<>>, !.blogs = <<>>]
             n == appendInsights(c.news, newsData.items, TRUE)
             sn == [c EXCEPT !.news = n.children]
             b == appendInsights(c.blogs, blogsData.items, FALSE)
         IN  IF n.threw THEN Thrown(sn, NullReadMessage)
             ELSE IF b.threw
                  THEN Thrown([sn EXCEPT !.blogs = b.children], NullReadMessage)
             ELSE Returned([sn EXCEPT !.blogs = b.children])

-----------------------------------------------------------------------------
(* The response body of the quotes endpoint, as json() decodes it.         *)

\* A JSON scalar: a string, a number (s is its decimal text), null, or a
\* property the object does not have.
Str(chars) == [t |-> "str", s |-> chars]
Num(chars) == [t |-> "num", s |-> chars]
Undef == [t |-> "undef", s |-> <<>>]

\* String(v), as parseFloat applies it to its argument.
toStringChars(v) ==
    CASE v.t \in {"str", "num"} -> v.s
      [] v.t = "undef" -> <<"u", "n", "d", "e", "f", "i", "n", "e", "d">>
      [] OTHER -> <<"n", "u", "l", "l">>

\* One element of top_gainers or top_losers: an object or null.
RawEntry(ticker, price, change) ==
    [t |-> "obj", ticker |-> ticker, price |-> price, change_percentage |-> change]
NullEntry ==
    [t |-> "null", ticker |-> "", price |-> Undef, change_percentage |-> Undef]

\* The "Error Message" and "Note" properties: absent, or a string.
NoField == [present |-> FALSE, text |-> ""]
Field(text) == [present |-> TRUE, text |-> text]

\* JavaScript truthiness of such a property: present and not the empty string.
truthyText(f) == f.present /\ f.text # ""

Payload(em, note, g, l) ==
    [t |-> "obj", errorMessage |-> em, note |-> note,
     top_gainers |-> g, top_losers |-> l]
NullPayload ==
    [t |-> "null", errorMessage |-> NoField, note |-> NoField,
     top_gainers |-> AbsentField, top_losers |-> AbsentField]
\* Before json() has resolved there is no body.
NoPayload ==
    [t |-> "none", errorMessage |-> NoField, note |-> NoField,
     top_gainers |-> AbsentField, top_losers |-> AbsentField]

-----------------------------------------------------------------------------
(* fetchMarketData                                                         *)

Script == "js/script.js"
Part000 == "unnamed/part_000"
Builds == {Script, Part000}

API_KEY == "EI339Y34FX1BR93U"

\* The message of the credential check's Error.
apiKeyMessage(b) ==
    IF b = Script THEN "Please provide a valid API key."
    ELSE "Please replace \"YOUR_ALPHA_VANTAGE_API_KEY\" with a valid key from Alpha Vantage."

GenericUpstreamMessage ==
    "API returned an error. Please check your API key or a rate limit may have been exceeded."

\* The message of the Error thrown for an upstream rejection: the field's
\* text in script.js, a fixed text in the other copy.
upstreamMessage(b, data) ==
    IF b = Part000 THEN GenericUpstreamMessage
    ELSE IF truthyText(data.errorMessage) THEN data.errorMessage.text
    ELSE data.note.text

UndefinedReadMessage == "Cannot read properties of undefined"
NotAFunctionMessage == "item.change_percentage.replace is not a function"

normalizeThrowsOnNaN(item) ==
    \/ item.t = "null"
    \/ item.change_percentage.t # "str"
    \/ parseFloat(toStringChars(item.price)).nan
    \/ parseFloat(replacePercent(item.change_percentage.s)).nan

\* Whether the map callback throws on a raw entry: reading ticker of null,
\* or calling replace on a change_percentage that is not a string.
normalizeThrows(item) ==
    item.t = "null" \/ item.change_percentage.t # "str"

normalizeMessage(item) ==
    CASE item.t = "null" -> NullReadMessage
      [] item.change_percentage.t = "undef" -> UndefinedReadMessage
      [] item.change_percentage.t = "null" -> NullReadMessage
      [] OTHER -> NotAFunctionMessage

\* A callback that copies the texts without parsing and formatting them.
normalizeVerbatim(item) ==
    MoverRecord(item.ticker, toStringChars(item.price),
                replacePercent(item.change_percentage.s))

\* The map callback on an entry it does not throw on.
normalize(item) ==
    MoverRecord(item.ticker,
                toFixed2(parseFloat(toStringChars(item.price))),
                toFixed2(parseFloat(replacePercent(item.change_percentage.s))))

\* items.map(callback): the records, or the first throw.
RECURSIVE mapEntries(_)
mapEntries(items) ==
    IF items = <<>> THEN [threw |-> FALSE, message |-> "", records |-> <<>>]
    ELSE IF normalizeThrows(Head(items))
         THEN [threw |-> TRUE, message |-> normalizeMessage(Head(items)),
               records |-> <<>>]
    ELSE LET rest == mapEntries(Tail(items))
         IN  IF rest.threw THEN rest
             ELSE [rest EXCEPT !.records = <<normalize(Head(items))>> \o @]

mockBreadthData == BreadthCounts(2500, 500, 100)

EmptyMovers == MoversObject(ArrayField(<<>>), ArrayField(<<>>))

\* The try block from the decoded body on: the upstream error check, the
\* shape check, normalisation, renderTopMovers, renderMarketBreadth.
tryBlock(s, d, b, data) ==
    IF data.t = "null" THEN Thrown(s, NullReadMessage)
    ELSE IF truthyText(data.errorMessage) \/ truthyText(data.note)
         THEN Thrown(s, upstreamMessage(b, data))
    ELSE LET shaped == isArray(data.top_gainers) /\ isArray(data.top_losers)
             g == mapEntries(data.top_gainers.items)
             l == mapEntries(data.top_losers.items)
             r == renderTopMovers(s, d,
                      IF shaped
                      THEN MoversObject(ArrayField(g.records), ArrayField(l.records))
                      ELSE EmptyMovers)
         IN  IF shaped /\ g.threw THEN Thrown(s, g.message)
             ELSE IF shaped /\ l.threw THEN Thrown(s, l.message)
             ELSE IF r.threw THEN r
             ELSE Returned(renderMarketBreadth(r.sinks, d, mockBreadthData))

\* What the catch block displays: error.message, and in part_000 a fixed
\* text when the message is empty.
displayedMessage(b, message) ==
    IF b = Part000 /\ message = "" THEN "Failed to load data." ELSE message

catchBlockTablesOnly(s, d, b, message) ==
    LET e == <<TextNode(displayedMessage(b, message))>>
    IN  setInnerHTML(setInnerHTML(s, d, "gainers", e), d, "losers", e)

\* The catch block: the error text replaces the content of the three sinks.
catchBlock(s, d, b, message) ==
    LET e == <<TextNode(displayedMessage(b, message))>>
    IN  setInnerHTML(setInnerHTML(setInnerHTML(s, d, "gainers", e),
                                  d, "losers", e), d, "breadth", e)

\* A run that answers a failure by waiting for the request once more.
settleRetry(s, d, b, r) ==
    IF r.threw
    THEN [sinks |-> r.sinks, pc |-> "awaitFetch", error |-> r.message,
          escaped |-> FALSE]
    ELSE [sinks |-> r.sinks, pc |-> "succeeded", error |-> "", escaped |-> FALSE]

settleUncaught(s, d, b, r) ==
    IF r.threw
    THEN [sinks |-> r.sinks, pc |-> "failed", error |-> r.message, escaped |-> TRUE]
    ELSE [sinks |-> r.sinks, pc |-> "succeeded", error |-> "", escaped |-> FALSE]

\* How a run of the try block ends: succeeded, or failed with the catch
\* block's writes.  The try statement encloses the whole body, so nothing
\* escapes.
settle(s, d, b, r) ==
    IF r.threw
    THEN [sinks |-> catchBlock(r.sinks, d, b, r.message), pc |-> "failed",
          error |-> r.message, escaped |-> FALSE]
    ELSE [sinks |-> r.sinks, pc |-> "succeeded", error |-> "", escaped |-> FALSE]

mockNewsData ==
    ArrayField(<<
        InsightItem("Global Markets Rebound as Inflation Fears Ease", "", "#"),
        InsightItem("Tech Giants Announce Record-Breaking Q2 Earnings", "", "#"),
        InsightItem("Central Bank Holds Rates Amidst Economic Uncertainty", "", "#"),
        InsightItem("Supply Chain Disruptions Continue to Impact Manufacturing", "", "#"),
        InsightItem("New Regulations Spark Debate in the Financial Sector", "", "#") >>)

mockBlogsData ==
    ArrayField(<<
        InsightItem("The Future of Fintech: A Comprehensive Analysis", "By Jane Doe", "#"),
        InsightItem("Navigating Volatility: A Guide for Long-Term Investors",
                    "By John Smith", "#"),
        InsightItem("Decoding Economic Indicators: What You Need to Know",
                    "By The CapitalFlow Team", "#") >>)

\* new Chart(ctx, ...) when the canvas exists.
renderMarketChart(n, d) == IF d.chart THEN n + 1 ELSE n

-----------------------------------------------------------------------------
(* The mobile menu toggle and the scroll reveal of the service cards.      *)

\* The elements the script looks up: the button, the menu panel, and the
\* two icons that querySelector finds inside the button.
MenuDom(button, panel, hamburger, close) ==
    [button |-> button, panel |-> panel, hamburger |-> hamburger, close |-> close]

\* The aria-expanded attribute of the button (NoField: no such attribute)
\* and the inline style.display of the panel and of the two icons ("": none
\* set, the style sheet decides).
MenuState(aria, panel, hamburger, close) ==
    [aria |-> aria, panel |-> panel, hamburger |-> hamburger, close |-> close]

\* getAttribute('aria-expanded') === 'true' || false
isExpanded(m) == m.aria.present /\ m.aria.text = "true"

\* A click handler that treats a button without the attribute as expanded.
clickHandlerAbsentExpanded(m, md) ==
    LET expanded == ~m.aria.present \/ m.aria.text = "true"
    IN  IF ~expanded
        THEN MenuState(Field("true"), "block",
                       IF md.hamburger THEN "none" ELSE m.hamburger,
                       IF md.close THEN "block" ELSE m.close)
        ELSE MenuState(Field("false"), "none",
                       IF md.hamburger THEN "block" ELSE m.hamburger,
                       IF md.close THEN "none" ELSE m.close)

\* The click handler of the button: setAttribute stores String(!isExpanded),
\* then the panel and the icons the document holds are shown or hidden.
clickHandler(m, md) ==
    IF ~isExpanded(m)
    THEN MenuState(Field("true"), "block",
                   IF md.hamburger THEN "none" ELSE m.hamburger,
                   IF md.close THEN "block" ELSE m.close)
    ELSE MenuState(Field("false"), "none",
                   IF md.hamburger THEN "block" ELSE m.hamburger,
                   IF md.close THEN "none" ELSE m.close)

\* The handler is registered only when the button and the panel exist.
clickRegistered(md) == md.button /\ md.panel

\* revealOnScroll: every card whose top lies above 85% of the viewport
\* height (the cards in inView) gets the class "visible"; classList.add
\* never removes it.
revealOnScroll(c, inView) == [i \in DOMAIN c |-> c[i] \/ i \in inView]

\* Only src/js/script.js has the scroll reveal.
hasScrollReveal(b) == b = Script

-----------------------------------------------------------------------------
(* The inputs of the model.                                                *)

SeqsUpTo(S, n) == UNION {[1..k -> S] : k \in 0..n}

\* Raw entries: a well-formed one, one whose price and change are not
\* numeric, one whose fields are JSON numbers, and null.
Entries ==
    { RawEntry("AAA", Str(<<"1", "0">>), Str(<<"5", ".", "5", "%">>)),
      RawEntry("BBB", Str(<<"a", "b", "c">>), Str(<<"n", "/", "a">>)),
      RawEntry("CCC", Num(<<"1", "2", ".", "5">>), Num(<<"3">>)),
      NullEntry }

PayloadArrays ==
    {AbsentField, OtherField} \cup {ArrayField(a) : a \in SeqsUpTo(Entries, MaxEntries)}

ErrorMessageFields == {NoField, Field(""), Field("Invalid API call.")}
NoteFields == {NoField, Field(""), Field("rate limit exceeded")}

\* The bodies json() may decode: null, or an object with any of the four
\* properties.
Payloads ==
    {NullPayload} \cup
    { Payload(em, note, p[1], p[2]) :
        em \in ErrorMessageFields, note \in NoteFields,
        p \in {q \in PayloadArrays \X PayloadArrays :
                   Len(q[1].items) + Len(q[2].items) <= MaxEntries} }

\* Messages of the errors fetch() and json() reject with (the wording is
\* the engine's; an empty message is allowed).
NetworkMessages == {"Failed to fetch", ""}
SyntaxMessages == {"Unexpected token < in JSON at position 0"}

Presence == [SinkNames \cup {"chart"} -> BOOLEAN]

\* A sink the document holds starts with the page's static markup.
InitialSinks(d) == [n \in SinkNames |-> IF d[n] THEN <<StaticNode>> ELSE <<>>]

\* The render harness is idle while the page runs.
NoCall ==
    [fn |-> "none", movers |-> MoversOther("undef"), breadth |-> UndefCounts,
     news |-> AbsentField, blogs |-> AbsentField]

\* The map harness is idle while the page runs.
NoResult == [done |-> FALSE, threw |-> FALSE, record |-> UndefItem]
MapIdle == raw = NullEntry /\ norm = NoResult

\* A document without the mobile menu and without service cards: no click
\* handler is registered and revealOnScroll has nothing to reveal.
NoMenuDom == MenuDom(FALSE, FALSE, FALSE, FALSE)
Unstyled(aria) == MenuState(aria, "", "", "")
NoUi ==
    /\ menuDom = NoMenuDom
    /\ menu = Unstyled(NoField)
    /\ menuLog = <<menu>>
    /\ cards = <<>>

-----------------------------------------------------------------------------
(* The page: the DOMContentLoaded handler and the resumptions of           *)
(* fetchMarketData.                                                        *)

Init ==
    /\ build \in Builds
    /\ dom \in Presence
    /\ sinks = InitialSinks(dom)
    /\ pc = "loading"
    /\ moversData = NoPayload
    /\ requests = 0
    /\ escaped = FALSE
    /\ lastError = ""
    /\ charts = 0
    /\ call = NoCall
    /\ calls = 0
    /\ first = sinks
    /\ threw = FALSE
    /\ MapIdle
    /\ NoUi

harnessVars == <<call, calls, first, threw, raw, norm>>
uiVars == <<menuDom, menu, menuLog, cards>>

\* The handler runs to completion: fetchMarketData up to its first await
\* (the credential check, the request), then renderMockChartData and
\* renderMockInsights.
DOMContentLoaded ==
    /\ pc = "loading"
    /\ LET keyMissing == API_KEY = "YOUR_ALPHA_VANTAGE_API_KEY"
           f == IF keyMissing
                THEN settle(sinks, dom, build, Thrown(sinks, apiKeyMessage(build)))
                ELSE [sinks |-> sinks, pc |-> "awaitFetch", error |-> "",
                      escaped |-> FALSE]
           i == renderInsights(f.sinks, dom, mockNewsData, mockBlogsData)
       IN  /\ pc' = f.pc
           /\ requests' = IF keyMissing THEN requests ELSE requests + 1
           /\ lastError' = f.error
           /\ escaped' = f.escaped
           /\ charts' = renderMarketChart(charts, dom)
           /\ sinks' = i.sinks
    /\ \E inView \in SUBSET DOMAIN cards :
           cards' = IF hasScrollReveal(build) THEN revealOnScroll(cards, inView)
                    ELSE cards
    /\ UNCHANGED <<build, dom, moversData, harnessVars, menuDom, menu, menuLog>>

\* fetch() resolves with a response: the function calls json() and waits.
FetchResolves ==
    /\ pc = "awaitFetch"
    /\ pc' = "awaitJson"
    /\ UNCHANGED <<build, dom, sinks, moversData, requests, escaped, lastError,
                   charts, harnessVars, uiVars>>

Fail(message) ==
    LET f == settle(sinks, dom, build, Thrown(sinks, message))
    IN  /\ pc' = f.pc
        /\ sinks' = f.sinks
        /\ lastError' = f.error
        /\ escaped' = f.escaped
        /\ UNCHANGED <<build, dom, moversData, requests, charts, harnessVars,
                       uiVars>>

\* fetch() rejects: a network failure.
FetchRejects ==
    /\ pc = "awaitFetch"
    /\ \E message \in NetworkMessages : Fail(message)

\* json() rejects: the body is not JSON.
JsonRejects ==
    /\ pc = "awaitJson"
    /\ \E message \in SyntaxMessages : Fail(message)

\* json() resolves with a decoded body of the set: the rest of the try
\* block runs.
Resumes(bodies) ==
    /\ pc = "awaitJson"
    /\ \E data \in bodies :
        LET f == settle(sinks, dom, build, tryBlock(sinks, dom, build, data))
        IN  /\ moversData' = data
            /\ pc' = f.pc
            /\ sinks' = f.sinks
            /\ lastError' = f.error
            /\ escaped' = f.escaped
    /\ UNCHANGED <<build, dom, requests, charts, harnessVars, uiVars>>

JsonResolves == Resumes(Payloads)

Next ==
    \/ DOMContentLoaded
    \/ FetchResolves
    \/ FetchRejects
    \/ JsonRejects
    \/ JsonResolves

Spec == Init /\ [][Next]_vars

\* The page when the browser fires DOMContentLoaded and each of the two
\* promises the function awaits settles: the event loop then resumes the
\* function in the same turn.  The documents are those that hold the
\* insight lists and the canvas.
InitLive == Init /\ dom.news /\ dom.blogs /\ dom.chart

SpecLive ==
    /\ InitLive /\ [][Next]_vars
    /\ WF_vars(DOMContentLoaded)
    /\ WF_vars(FetchResolves \/ FetchRejects)
    /\ WF_vars(JsonResolves \/ JsonRejects)

-----------------------------------------------------------------------------
(* The render functions on their own: each is called, up to MaxCalls times *)
(* in a row, with one input drawn from the sets below.                     *)

Items ==
    { NullItem, UndefItem,
      MoverRecord("AAA", <<"1", "0", ".", "0", "0">>, <<"5", ".", "5", "0">>),
      MoverRecord("BBB", <<"2", ".", "3", "5">>, <<"-", "1", ".", "2", "5">>) }

MoversFields ==
    {AbsentField, OtherField} \cup {ArrayField(a) : a \in SeqsUpTo(Items, MaxItems)}

\* null, undefined, a falsy primitive (0, ""), a truthy one (5, "x"), or an
\* object with any gainers and losers.
MoversArgs ==
    {MoversOther(k) : k \in {"null", "undef", "falsy", "primitive"}} \cup
    {MoversObject(g, l) : g \in MoversFields, l \in MoversFields}

BreadthArgs ==
    {NullCounts, UndefCounts, mockBreadthData} \cup
    {BreadthCounts(a, b, c) : a \in 0..MaxCount, b \in 0..MaxCount, c \in 0..MaxCount}

InsightFields ==
    {AbsentField, OtherField} \cup
    {ArrayField(a) : a \in SeqsUpTo({NullInsight, InsightItem("Title", "By A", "#")},
                                   MaxItems)}

Calls ==
    {[NoCall EXCEPT !.fn = "renderTopMovers", !.movers = a] : a \in MoversArgs}
    \cup {[NoCall EXCEPT !.fn = "renderMarketBreadth", !.breadth = a] : a \in BreadthArgs}
    \cup {[NoCall EXCEPT !.fn = "renderInsights", !.news = n, !.blogs = b] :
             n \in InsightFields, b \in InsightFields}

\* The sinks a render function looks up.
Touches(fn) ==
    CASE fn = "renderTopMovers" -> {"gainers", "losers"}
      [] fn = "renderMarketBreadth" -> {"breadth"}
      [] OTHER -> {"news", "blogs"}

InitRender ==
    /\ build = Script
    /\ call \in Calls
    /\ dom \in {d \in Presence : \A n \in DOMAIN d : n \notin Touches(call.fn) => d[n]}
    /\ sinks = InitialSinks(dom)
    /\ pc = "harness"
    /\ moversData = NoPayload
    /\ requests = 0
    /\ escaped = FALSE
    /\ lastError = ""
    /\ charts = 0
    /\ calls = 0
    /\ first = sinks
    /\ threw = FALSE
    /\ MapIdle
    /\ NoUi

pageVars == <<build, dom, pc, moversData, requests, escaped, lastError, charts,
              uiVars>>

\* One call; the sinks the first call leaves are remembered.
Called(r) ==
    /\ sinks' = r.sinks
    /\ threw' = r.threw
    /\ calls' = calls + 1
    /\ first' = IF calls = 0 THEN r.sinks ELSE first
    /\ UNCHANGED <<pageVars, call, raw, norm>>

CallRenderTopMovers ==
    /\ pc = "harness" /\ call.fn = "renderTopMovers" /\ calls < MaxCalls
    /\ Called(renderTopMovers(sinks, dom, call.movers))

CallRenderMarketBreadth ==
    /\ pc = "harness" /\ call.fn = "renderMarketBreadth" /\ calls < MaxCalls
    /\ Called(Returned(renderMarketBreadth(sinks, dom, call.breadth)))

CallRenderInsights ==
    /\ pc = "harness" /\ call.fn = "renderInsights" /\ calls < MaxCalls
    /\ Called(renderInsights(sinks, dom, call.news, call.blogs))

NextRender ==
    \/ CallRenderTopMovers
    \/ CallRenderMarketBreadth
    \/ CallRenderInsights

SpecRender == InitRender /\ [][NextRender]_vars

-----------------------------------------------------------------------------
(* The page with its visitor: clicks on the menu button and scroll events  *)
(* arrive at any time after the DOMContentLoaded handler has registered    *)
(* the two listeners, between the steps of fetchMarketData.                *)

\* The icons are looked up inside the button.
MenuDoms ==
    {MenuDom(b, p, h, c) : b \in BOOLEAN, p \in BOOLEAN, h \in {FALSE}, c \in {FALSE}}
    \cup {MenuDom(TRUE, p, h, c) : p \in BOOLEAN, h \in BOOLEAN, c \in BOOLEAN}

\* The attribute as the markup may carry it.
AriaValues == {NoField, Field("true"), Field("false")}

\* Bodies with at most one entry in each array: every way the run ends.
SamplePayloads ==
    {p \in Payloads :
        /\ p.t = "obj" => /\ p.errorMessage = NoField
                          /\ p.note \in {NoField, Field("rate limit exceeded")}
                          /\ p.top_gainers # OtherField /\ p.top_losers # OtherField
                          /\ Len(p.top_gainers.items) <= 1
                          /\ Len(p.top_losers.items) <= 1}

InitEvents ==
    /\ build \in Builds
    /\ dom \in {d \in Presence : \A n \in DOMAIN d : d[n]}
    /\ sinks = InitialSinks(dom)
    /\ pc = "loading"
    /\ moversData = NoPayload
    /\ requests = 0
    /\ escaped = FALSE
    /\ lastError = ""
    /\ charts = 0
    /\ call = NoCall
    /\ calls = 0
    /\ first = sinks
    /\ threw = FALSE
    /\ MapIdle
    /\ menuDom \in MenuDoms
    /\ menu \in {Unstyled(a) : a \in IF menuDom.button THEN AriaValues ELSE {NoField}}
    /\ menuLog = <<menu>>
    /\ cards \in UNION {[1..n -> {FALSE}] : n \in 0..MaxCards}

\* The listeners exist once the DOMContentLoaded handler has run.
Listening == pc \in {"awaitFetch", "awaitJson", "succeeded", "failed"}

\* A click whose handler rewrites the gainers table.
MenuClickClearsTable ==
    /\ Listening /\ clickRegistered(menuDom)
    /\ Len(menuLog) <= MaxClicks
    /\ menu' = clickHandler(menu, menuDom)
    /\ menuLog' = Append(menuLog, menu')
    /\ sinks' = [sinks EXCEPT !.gainers = <<>>]
    /\ UNCHANGED <<build, dom, pc, moversData, requests, escaped, lastError,
                   charts, harnessVars, menuDom, cards>>

\* A click on the mobile menu button.
MenuClick ==
    /\ Listening /\ clickRegistered(menuDom)
    /\ Len(menuLog) <= MaxClicks
    /\ menu' = clickHandler(menu, menuDom)
    /\ menuLog' = Append(menuLog, menu')
    /\ UNCHANGED <<build, dom, sinks, pc, moversData, requests, escaped, lastError,
                   charts, harnessVars, menuDom, cards>>

\* A scroll event: revealOnScroll with the cards that are now in view.
Scroll ==
    /\ Listening /\ hasScrollReveal(build)
    /\ \E inView \in SUBSET DOMAIN cards : cards' = revealOnScroll(cards, inView)
    /\ UNCHANGED <<build, dom, sinks, pc, moversData, requests, escaped, lastError,
                   charts, harnessVars, menuDom, menu, menuLog>>

JsonResolvesSample == Resumes(SamplePayloads)

NextEvents ==
    \/ DOMContentLoaded
    \/ FetchResolves
    \/ FetchRejects
    \/ JsonRejects
    \/ JsonResolvesSample
    \/ MenuClick
    \/ Scroll

SpecEvents == InitEvents /\ [][NextEvents]_vars

-----------------------------------------------------------------------------
(* The map callback on its own: one raw entry, drawn from the sets below,  *)
(* is mapped as data.top_gainers.map(...) maps it.                         *)

Tickers == {"AAA", "BRK.B"}

\* Prices: decimal texts (with the ties 2.345, 1.005 and 0.125 among them),
\* a JSON number, and a text that is not a number.
RawPrices ==
    { Str(<<"1", "0">>), Str(<<"2", ".", "3", "4", "5">>),
      Str(<<"1", ".", "0", "0", "5">>), Str(<<"0", ".", "1", "2", "5">>),
      Str(<<"9", ".", "9", "9", "9">>), Num(<<"1", "2", ".", "5">>),
      Str(<<"a", "b", "c">>) }

\* Changes: decimal texts with and without the "%", signed ones, texts
\* that are not numbers, a text with two "%", a JSON number and a missing
\* property.
RawChanges ==
    { Str(<<"5", ".", "5", "%">>), Str(<<"-", "1", ".", "2", "5", "%">>),
      Str(<<"1", "2", ".", "3", "4", "5", "%">>), Str(<<"-", "0", ".", "0", "0", "1", "%">>),
      Str(<<"3">>), Str(<<"n", "/", "a">>), Str(<<"5", "%", "5", "%">>),
      Num(<<"3">>), Undef }

RawEntries ==
    {NullEntry} \cup
    {RawEntry(t, p, c) : t \in Tickers, p \in RawPrices, c \in RawChanges}

InitMap ==
    /\ build \in Builds
    /\ raw \in RawEntries
    /\ norm = NoResult
    /\ dom \in {d \in Presence : \A n \in DOMAIN d : d[n]}
    /\ sinks = InitialSinks(dom)
    /\ pc = "map"
    /\ moversData = NoPayload
    /\ requests = 0
    /\ escaped = FALSE
    /\ lastError = ""
    /\ charts = 0
    /\ call = NoCall
    /\ calls = 0
    /\ first = sinks
    /\ threw = FALSE
    /\ NoUi

\* [raw].map(callback): the record, or the throw.
MapEntry ==
    /\ pc = "map" /\ ~norm.done
    /\ LET r == mapEntries(<<raw>>)
       IN  norm' = [done |-> TRUE, threw |-> r.threw,
                    record |-> IF r.threw THEN UndefItem ELSE r.records[1]]
    /\ UNCHANGED <<pageVars, sinks, call, calls, first, threw, raw>>

NextMap == MapEntry

SpecMap == InitMap /\ [][NextMap]_vars

-----------------------------------------------------------------------------
(* Vocabulary of the properties.                                           *)

MarketSinks == {"gainers", "losers", "breadth"}

Done == pc \in {"succeeded", "failed"}

\* json() resolved with this run's body.
Decoded == Done /\ moversData.t \in {"obj", "null"}

\* A sink the document holds has the text as its only content.
ShowsText(n, text) == dom[n] => sinks[n] = <<TextNode(text)>>

\* The text the failed run displays.
ErrorText ==
    IF build = Part000 /\ lastError = "" THEN "Failed to load data." ELSE lastError

HasBothArrays ==
    moversData.top_gainers.t = "array" /\ moversData.top_losers.t = "array"

Rejected == truthyText(moversData.errorMessage) \/ truthyText(moversData.note)

\* The widget's three buckets for 2500 advancing, 500 declining, 100 unchanged.
MockBreadthNodes ==
    << Node("pct", "Advancing", <<>>, <<>>, "indicator-up", 81, FALSE),
       Node("pct", "Declining", <<>>, <<>>, "indicator-down", 16, FALSE),
       Node("pct", "Unchanged", <<>>, <<>>, "text-gray-600", 3, FALSE) >>

NaNChars == <<"N", "a", "N">>

-----------------------------------------------------------------------------
(* C1.  A body with a non-empty "Error Message" or "Note" ends with that   *)
(* field's text as the only content of the gainers table, the losers table *)
(* and the breadth widget: no mover row, no percentage, whatever arrays    *)
(* the body also carries.                                                  *)
C1_UpstreamTextInAllSinks ==
    (Decoded /\ moversData.t = "obj" /\ Rejected) =>
        \E f \in {moversData.errorMessage, moversData.note} :
            /\ truthyText(f)
            /\ \A n \in MarketSinks : ShowsText(n, f.text)

\* C1, the copy js/script.js alone: there the field's text is displayed,
\* "Error Message" before "Note".
C1_ScriptShowsFieldText ==
    (Decoded /\ moversData.t = "obj" /\ Rejected /\ build = Script) =>
        /\ pc = "failed"
        /\ \A n \in MarketSinks :
              ShowsText(n, IF truthyText(moversData.errorMessage)
                           THEN moversData.errorMessage.text
                           ELSE moversData.note.text)

\* C1, the copy unnamed/part_000: a rejection with arrays in the body and
\* the three sinks in the document.
C1_Part000Rejection ==
    /\ Decoded /\ moversData.t = "obj" /\ Rejected /\ build = Part000
    /\ HasBothArrays /\ moversData.top_gainers.items # <<>>
    /\ \A n \in MarketSinks : dom[n] /\ sinks[n] = <<TextNode(GenericUpstreamMessage)>>

-----------------------------------------------------------------------------
(* C2.  A failed run lets no exception escape fetchMarketData and leaves   *)
(* the gainers table, the losers table and the breadth widget each holding *)
(* the one error text and nothing else.                                    *)
C2_FailureShowsOneTextEverywhere ==
    /\ ~escaped
    /\ pc = "failed" => \A n \in MarketSinks : ShowsText(n, ErrorText)

\* C2: a normalisation failure (a null entry) with the three sinks present.
C2_Witness ==
    /\ pc = "failed" /\ moversData.t = "obj" /\ ~Rejected /\ HasBothArrays
    /\ moversData.top_gainers.items # <<>>
    /\ moversData.top_gainers.items[1].t = "null"
    /\ \A n \in MarketSinks : dom[n]

-----------------------------------------------------------------------------
(* C3.  A body with no "Error Message", no "Note" and without both arrays  *)
(* does not fail: the tables end with zero rows and no placeholder, and    *)
(* the breadth widget shows the mock snapshot.                             *)
C3_MissingArraysDegrade ==
    (Decoded /\ ~moversData.errorMessage.present /\ ~moversData.note.present
       /\ ~HasBothArrays) =>
        /\ pc = "succeeded"
        /\ dom.gainers => sinks.gainers = <<>>
        /\ dom.losers => sinks.losers = <<>>
        /\ dom.breadth => sinks.breadth = MockBreadthNodes

\* C3, object bodies alone: every body that is an object degrades as claimed.
C3_ObjectBodiesDegrade ==
    (Decoded /\ moversData.t = "obj" /\ ~Rejected /\ ~HasBothArrays) =>
        /\ pc = "succeeded"
        /\ dom.gainers => sinks.gainers = <<>>
        /\ dom.losers => sinks.losers = <<>>
        /\ dom.breadth => sinks.breadth = MockBreadthNodes

-----------------------------------------------------------------------------
(* C4.  No call of renderTopMovers throws, whatever its argument and       *)
(* whether or not the tables are in the document.                          *)
C4_RenderTopMoversNeverThrows ==
    call.fn = "renderTopMovers" => ~threw

\* C4, arrays without null or undefined elements: no call throws.
C4_ObjectItemsNeverThrow ==
    (call.fn = "renderTopMovers"
       /\ \A f \in {call.movers.gainers, call.movers.losers} :
             \A i \in 1..Len(f.items) : f.items[i].t = "obj") => ~threw

-----------------------------------------------------------------------------
(* C5, as stated.  After a failed run the breadth widget still shows the   *)
(* mock snapshot.                                                          *)
C5_FailureLeavesMockBreadth ==
    (pc = "failed" /\ dom.breadth) => sinks.breadth = MockBreadthNodes

(* C5, amended.  A failure blocks the breadth widget too: after a failed   *)
(* run the widget holds the error text, and it shows the mock snapshot     *)
(* exactly when the run succeeded.                                         *)
C5_BreadthMockIffSucceeded ==
    (Done /\ dom.breadth) =>
        /\ pc = "succeeded" <=> sinks.breadth = MockBreadthNodes
        /\ pc = "failed" => sinks.breadth = <<TextNode(ErrorText)>>

\* C5: an upstream rejection with the widget in the document.
C5_Witness ==
    /\ pc = "failed" /\ dom.breadth /\ moversData.t = "obj"
    /\ truthyText(moversData.note)
    /\ sinks.breadth = <<TextNode(ErrorText)>>

-----------------------------------------------------------------------------
(* Vocabulary of C6 and C7: the raw entries of the decoded body.           *)

RawGainers == moversData.top_gainers.items
RawLosers == moversData.top_losers.items
RawAll == RawGainers \o RawLosers

\* The body passed the upstream check and the shape check.
Normalised == Decoded /\ moversData.t = "obj" /\ ~Rejected /\ HasBothArrays

\* parseFloat finds no number in the price, or in the change once its "%"
\* is removed.
NonNumericPrice(e) == e.t = "obj" /\ parseFloat(toStringChars(e.price)).nan
NonNumericChange(e) ==
    /\ e.t = "obj"
    /\ e.change_percentage.t = "str"
    /\ parseFloat(replacePercent(e.change_percentage.s)).nan

(* C6, as stated.  A raw entry with a non-numeric price or                 *)
(* change_percentage makes the run fail, and no row is rendered.           *)
C6_NonNumericFieldFails ==
    (Normalised /\ \E i \in 1..Len(RawAll) :
                      NonNumericPrice(RawAll[i]) \/ NonNumericChange(RawAll[i])) =>
        /\ pc = "failed"
        /\ \A n \in MarketSinks : ShowsText(n, ErrorText)

(* C6, amended.  A price or change_percentage string that holds no number  *)
(* does not fail normalisation: it is formatted as "NaN" and its row is    *)
(* rendered.  The run fails exactly when some entry is null or has a       *)
(* change_percentage that is not a string.                                 *)
C6_NonNumericRendersNaN ==
    Normalised =>
        /\ pc = "failed" <=>
              \E i \in 1..Len(RawAll) :
                  RawAll[i].t = "null" \/ RawAll[i].change_percentage.t # "str"
        /\ (pc = "succeeded" /\ dom.gainers) =>
              /\ Len(sinks.gainers) = Len(RawGainers)
              /\ \A i \in 1..Len(RawGainers) :
                    /\ NonNumericPrice(RawGainers[i]) =>
                           sinks.gainers[i].price = NaNChars
                    /\ NonNumericChange(RawGainers[i]) =>
                           sinks.gainers[i].change = NaNChars
        /\ (pc = "succeeded" /\ dom.losers) =>
              /\ Len(sinks.losers) = Len(RawLosers)
              /\ \A i \in 1..Len(RawLosers) :
                    /\ NonNumericPrice(RawLosers[i]) =>
                           sinks.losers[i].price = NaNChars
                    /\ NonNumericChange(RawLosers[i]) =>
                           sinks.losers[i].change = NaNChars

\* C6: a succeeded run with a rendered gainer whose price and change are NaN.
C6_Witness ==
    /\ Normalised /\ pc = "succeeded" /\ dom.gainers
    /\ RawGainers # <<>>
    /\ NonNumericPrice(RawGainers[1]) /\ NonNumericChange(RawGainers[1])
    /\ sinks.gainers[1].kind = "row"
    /\ sinks.gainers[1].price = NaNChars

-----------------------------------------------------------------------------
(* C7.  After a succeeded run on a body with both arrays, each table holds *)
(* one row per entry, in the order of the array, the row's symbol being    *)
(* the entry's ticker; gainer rows have the class price-up, loser rows     *)
(* price-down.                                                             *)
RowsMatch(rows, entries, cls) ==
    /\ Len(rows) = Len(entries)
    /\ \A i \in 1..Len(entries) :
          /\ rows[i].kind = "row"
          /\ rows[i].text = entries[i].ticker
          /\ rows[i].cls = cls

C7_OneRowPerEntryInOrder ==
    (Normalised /\ pc = "succeeded") =>
        /\ dom.gainers => RowsMatch(sinks.gainers, RawGainers, "price-up")
        /\ dom.losers => RowsMatch(sinks.losers, RawLosers, "price-down")

\* C7: two gainers with different tickers, rendered.
C7_Witness ==
    /\ Normalised /\ pc = "succeeded" /\ dom.gainers /\ dom.losers
    /\ Len(RawGainers) = 2
    /\ RawGainers[1].ticker # RawGainers[2].ticker
    /\ Len(sinks.gainers) = 2

\* C7: a gainer and a loser, rendered.
C7_GainerAndLoser ==
    /\ Normalised /\ pc = "succeeded" /\ dom.gainers /\ dom.losers
    /\ Len(sinks.gainers) = 1 /\ Len(sinks.losers) = 1

-----------------------------------------------------------------------------
(* C8.  A call of renderTopMovers whose argument fails the shape check     *)
(* (falsy, not an object, gainers or losers not an array) returns with the *)
(* "Data unavailable." placeholder as the only content of both tables.     *)
FailsShapeCheck(a) ==
    \/ a.t \in {"null", "undef", "falsy", "primitive"}
    \/ a.gainers.t # "array"
    \/ a.losers.t # "array"

C8_InvalidShapeShowsPlaceholder ==
    (call.fn = "renderTopMovers" /\ calls >= 1 /\ FailsShapeCheck(call.movers)) =>
        /\ ~threw
        /\ \A n \in {"gainers", "losers"} : ShowsText(n, "Data unavailable.")

\* C8: renderTopMovers(null) with both tables in the document.
C8_Witness ==
    /\ call.fn = "renderTopMovers" /\ calls >= 1 /\ call.movers.t = "null"
    /\ dom.gainers /\ dom.losers
    /\ sinks.gainers = <<Unavailable>> /\ sinks.losers = <<Unavailable>>

\* C8: an object whose losers is not an array, its gainers holding items.
C8_LosersNotArray ==
    /\ call.fn = "renderTopMovers" /\ calls >= 1 /\ call.movers.t = "obj"
    /\ call.movers.gainers.t = "array" /\ call.movers.gainers.items # <<>>
    /\ call.movers.losers.t = "other"
    /\ dom.gainers /\ sinks.gainers = <<Unavailable>>

-----------------------------------------------------------------------------
(* C9.  A second call of a render function with the same input leaves the  *)
(* sinks as the first call left them.                                      *)
C9_RenderTwiceSameAsOnce ==
    calls >= 2 => sinks = first

\* C9: renderTopMovers called twice on valid data with rows to render.
C9_Witness ==
    /\ calls >= 2 /\ call.fn = "renderTopMovers" /\ ~threw
    /\ dom.gainers /\ dom.losers
    /\ Len(sinks.gainers) = 2 /\ Len(sinks.losers) = 1

\* C9: the placeholder path of renderInsights, twice.
C9_InsightsPlaceholderTwice ==
    /\ calls >= 2 /\ call.fn = "renderInsights"
    /\ dom.news /\ sinks.news = <<Unavailable>>

-----------------------------------------------------------------------------
(* C10.  renderMarketBreadth writes for each bucket the integer nearest to *)
(* count * 100 / total; for 2500, 500 and 100 these are 81, 16 and 3.  For *)
(* null or undefined counts it writes the placeholder.                     *)
Abs(x) == IF x < 0 THEN -x ELSE x

Nearest(node, label, count, total) ==
    /\ node.kind = "pct" /\ node.text = label /\ ~node.nan
    /\ 2 * Abs(100 * count - node.pct * total) <= total

C10_BreadthPercentagesRounded ==
    (call.fn = "renderMarketBreadth" /\ calls >= 1 /\ dom.breadth) =>
        LET c == call.breadth
            total == c.advancing + c.declining + c.unchanged
        IN  /\ c.t \in {"null", "undef"} => sinks.breadth = <<Unavailable>>
            /\ (c.t = "obj" /\ total > 0) =>
                  /\ Len(sinks.breadth) = 3
                  /\ Nearest(sinks.breadth[1], "Advancing", c.advancing, total)
                  /\ Nearest(sinks.breadth[2], "Declining", c.declining, total)
                  /\ Nearest(sinks.breadth[3], "Unchanged", c.unchanged, total)
            /\ c = BreadthCounts(2500, 500, 100) => sinks.breadth = MockBreadthNodes

\* C10: the snapshot 2500 / 500 / 100 rendered as 81, 16 and 3.
C10_Witness ==
    /\ call.fn = "renderMarketBreadth" /\ calls >= 1 /\ dom.breadth
    /\ call.breadth = BreadthCounts(2500, 500, 100)
    /\ sinks.breadth[1].pct = 81 /\ sinks.breadth[2].pct = 16
    /\ sinks.breadth[3].pct = 3

\* C10: null counts, the placeholder written.
C10_NullCounts ==
    /\ call.fn = "renderMarketBreadth" /\ calls >= 1 /\ dom.breadth
    /\ call.breadth.t = "null" /\ sinks.breadth = <<Unavailable>>

-----------------------------------------------------------------------------
(* C11.  The map callback copies the ticker into symbol and writes price   *)
(* and change as the nearest hundredth, with exactly two fractional        *)
(* digits, of the numbers the raw price and the raw change_percentage      *)
(* without its trailing "%" spell; the entry AAA, "10", "5.5%" becomes     *)
(* AAA, "10.00", "5.50".  The raw entries meant are those of the feed: the *)
(* price a decimal text or a JSON number, the change a decimal text with   *)
(* or without one trailing "%".                                            *)

\* A decimal numeral: a sign or none, digits, at most one point, digits.
IsNumeral(s) ==
    LET u  == IF s # <<>> /\ Head(s) \in {"+", "-"} THEN Tail(s) ELSE s
        ni == DigitRun(u, 1)
        dot == ni < Len(u) /\ u[ni + 1] = "."
        nf == IF dot THEN DigitRun(u, ni + 2) ELSE 0
    IN  ni + nf > 0 /\ ni + nf + (IF dot THEN 1 ELSE 0) = Len(u)

StripTrailingPercent(s) ==
    IF s # <<>> /\ s[Len(s)] = "%" THEN SubSeq(s, 1, Len(s) - 1) ELSE s

\* A text with exactly two fractional digits.
TwoDecimals(s) ==
    LET u == IF s # <<>> /\ Head(s) = "-" THEN Tail(s) ELSE s
        n == Len(u)
    IN  n >= 4 /\ DigitRun(u, 1) = n - 3 /\ u[n - 2] = "."
        /\ u[n - 1] \in Digits /\ u[n] \in Digits

Signed(x) == IF x.neg THEN -x.m ELSE x.m

\* The output text spells a hundredth nearest to the number the input
\* text spells.
Reformatted(input, output) ==
    LET x == parseFloat(input)
        y == parseFloat(output)
    IN  /\ TwoDecimals(output)
        /\ 2 * Abs(100 * Signed(x) - Signed(y) * Pow10(x.s)) <= Pow10(x.s)
        /\ (y.neg => x.neg)

FeedEntry(e) ==
    /\ e.t = "obj"
    /\ e.price.t \in {"str", "num"} /\ IsNumeral(e.price.s)
    /\ e.change_percentage.t = "str"
    /\ IsNumeral(StripTrailingPercent(e.change_percentage.s))

ExampleEntry == RawEntry("AAA", Str(<<"1", "0">>), Str(<<"5", ".", "5", "%">>))

C11_NormalizationReformats ==
    (norm.done /\ FeedEntry(raw)) =>
        /\ ~norm.threw
        /\ norm.record.t = "obj"
        /\ norm.record.symbol = raw.ticker
        /\ Reformatted(raw.price.s, norm.record.price)
        /\ Reformatted(StripTrailingPercent(raw.change_percentage.s),
                       norm.record.change)
        /\ raw = ExampleEntry =>
              norm.record = MoverRecord("AAA", <<"1", "0", ".", "0", "0">>,
                                        <<"5", ".", "5", "0">>)

\* C11: the example entry, mapped.
C11_Witness ==
    /\ norm.done /\ raw = ExampleEntry
    /\ norm.record.price = <<"1", "0", ".", "0", "0">>
    /\ norm.record.change = <<"5", ".", "5", "0">>

\* C11: a tie and a negative change, mapped.
C11_TieAndNegative ==
    /\ norm.done /\ raw.t = "obj"
    /\ raw.price = Str(<<"1", ".", "0", "0", "5">>)
    /\ raw.change_percentage = Str(<<"-", "1", ".", "2", "5", "%">>)
    /\ norm.record.price = <<"1", ".", "0", "0">>
    /\ norm.record.change = <<"-", "1", ".", "2", "5">>

-----------------------------------------------------------------------------
(* C12.  fetchMarketData runs once per page load: it is pending until its  *)
(* awaits have settled, issues one request at most and never a second,     *)
(* then is succeeded or failed for good; while it is pending the gainers   *)
(* table, the losers table and the breadth widget are as the document      *)
(* delivered them, however long that lasts; and when the awaited promises  *)
(* settle it reaches succeeded or failed.                                  *)
Pending == pc \in {"loading", "awaitFetch", "awaitJson"}

Unwritten == \A n \in MarketSinks : sinks[n] = InitialSinks(dom)[n]

C12_PipelineRunsOnce ==
    /\ [](/\ Pending \/ Done
          /\ requests <= 1
          /\ Pending => Unwritten
          /\ ~(pc = "succeeded" /\ pc = "failed"))
    /\ [][/\ Done => pc' = pc
          /\ requests' # requests => (pc = "loading" /\ requests' = 1)
          /\ (Pending /\ pc' # pc) =>
                pc' \in {"awaitFetch", "awaitJson", "succeeded", "failed"}]_vars
    /\ (pc = "loading") ~> Done

\* C12: a run that failed on the network, one request issued.
C12_Witness ==
    /\ pc = "failed" /\ requests = 1 /\ moversData = NoPayload
    /\ lastError = "Failed to fetch"

\* C12: a run that succeeded, one request issued.
C12_Succeeded ==
    /\ pc = "succeeded" /\ requests = 1 /\ dom.gainers
    /\ Len(sinks.gainers) = 2

-----------------------------------------------------------------------------
(* C13.  However clicks on the menu button and scroll events interleave    *)
(* with the steps of fetchMarketData, the gainers table, the losers table  *)
(* and the breadth widget change only in the step in which the function    *)
(* resumes from an await and finishes: they are untouched while it is      *)
(* pending, no step of the menu toggle, the scroll reveal, the chart or    *)
(* the insights changes them, and once the function has finished they hold *)
(* what the outcome of the request alone determines.                       *)
MarketPart(s) == [n \in MarketSinks |-> s[n]]

\* What the run writes into the document as delivered, given how the
\* awaited promises settled: a rejection's message, or the decoded body.
OutcomeSinks ==
    LET s0 == InitialSinks(dom)
    IN  IF moversData = NoPayload
        THEN catchBlock(s0, dom, build, lastError)
        ELSE settle(s0, dom, build, tryBlock(s0, dom, build, moversData)).sinks

C13_SinksWrittenOnlyOnResumption ==
    /\ [](/\ Pending => Unwritten
          /\ Done => MarketPart(sinks) = MarketPart(OutcomeSinks))
    /\ [][/\ MarketPart(sinks') # MarketPart(sinks) =>
                (pc \in {"awaitFetch", "awaitJson"} /\ Done')
          /\ (menu' # menu \/ menuLog' # menuLog \/ cards' # cards
                \/ charts' # charts \/ pc = "loading") =>
                MarketPart(sinks') = MarketPart(sinks)]_vars

\* C13: the run succeeded with rows written, after clicks and a reveal.
C13_Witness ==
    /\ pc = "succeeded" /\ Len(sinks.gainers) = 1 /\ Len(sinks.losers) = 1
    /\ Len(menuLog) >= 3 /\ menu.panel = "none"
    /\ cards # <<>> /\ cards[1]

\* C13: clicks and a reveal have happened and the run is still pending.
C13_HandlersRanWhilePending ==
    /\ pc = "awaitJson" /\ Unwritten
    /\ Len(menuLog) >= 2 /\ menu.panel = "block"
    /\ cards # <<>> /\ cards[1]

-----------------------------------------------------------------------------
(* C14.  After one click or more on the mobile menu button: aria-expanded  *)
(* is "true" or "false"; the panel is displayed ("block") exactly when it  *)
(* is "true" and hidden ("none") otherwise; the close icon, if the button  *)
(* has one, is displayed exactly when the panel is, and the hamburger      *)
(* icon, if the button has one, exactly when it is not; each click flips   *)
(* the attribute, two further clicks restore the menu, and the first click *)
(* on a button without the attribute opens the menu.                       *)
Clicks == Len(menuLog) - 1

Consistent(m) ==
    /\ m.aria \in {Field("true"), Field("false")}
    /\ m.panel \in {"block", "none"}
    /\ m.panel = "block" <=> m.aria = Field("true")
    /\ menuDom.close => (m.close \in {"block", "none"}
                         /\ (m.close = "block" <=> m.panel = "block"))
    /\ menuDom.hamburger => (m.hamburger \in {"block", "none"}
                             /\ (m.hamburger = "block" <=> m.panel # "block"))

C14_MenuConsistentAfterClicks ==
    /\ menu = menuLog[Len(menuLog)]
    /\ \A i \in 2..Len(menuLog) :
          /\ Consistent(menuLog[i])
          /\ isExpanded(menuLog[i]) # isExpanded(menuLog[i - 1])
          /\ i + 2 <= Len(menuLog) => menuLog[i + 2] = menuLog[i]
    /\ (Clicks >= 1 /\ ~menuLog[1].aria.present) =>
          (menuLog[2].aria = Field("true") /\ menuLog[2].panel = "block")

\* C14: three clicks on a button without the attribute, both icons there.
C14_Witness ==
    /\ Clicks = 3 /\ ~menuLog[1].aria.present
    /\ menuDom.hamburger /\ menuDom.close
    /\ menu = MenuState(Field("true"), "block", "none", "block")
    /\ menuLog[2] = menu /\ menuLog[3] = MenuState(Field("false"), "none", "block", "none")

\* C14: the markup says expanded; the first click collapses the menu.
C14_MarkedExpanded ==
    /\ Clicks = 1 /\ menuLog[1].aria = Field("true")
    /\ menu.aria = Field("false") /\ menu.panel = "none"

=============================================================================
